---- MODULE Spec2Model ----
(***************************************************************************)
(* Model of extract_paragraphs.py: the paragraph extraction walk           *)
(* (extract_paragraphs_from_pdf), the annotation loop                      *)
(* (add_annotations_to_pdf_in_memory) and the __main__ pipeline.           *)
(*                                                                         *)
(* Strings are sequences of one-character strings, so that str.strip,      *)
(* str.split, str.join and str.count are computed as Python computes them. *)
(* Coordinates are integer points.  Sequences are 1-based: the code's      *)
(* index i is modelled as i + 1.                                           *)
(***************************************************************************)
EXTENDS Integers, Sequences, FiniteSets

(***************************************************************************)
(* Bounds of the model.                                                    *)
(***************************************************************************)
\* Total number of text blocks the PDF engine reports for one document.
MaxBlocks == 3
\* Largest number of pages of a document.
MaxPages == 2

(***************************************************************************)
(* Program constants.                                                      *)
(***************************************************************************)
\* vertical_threshold = 15
vertical_threshold == 15
\* width_threshold = page_content_width * 0.70, kept as a percentage
WidthRatioPct == 70

(***************************************************************************)
(* Inputs: what the PDF engine can report.                                 *)
(***************************************************************************)
\* page.rect.width
PageWidths == {10, 12}

\* Bounding boxes <<x0, y0, x1, y1>> a block can have.
Boxes ==
    { <<1, 0, 7, 10>>,      \* width 6
      <<0, 12, 5, 30>>,     \* width 5, tall
      <<2, 18, 9, 28>>,     \* width 7: exactly 70% of a 10-wide page
      <<0, 28, 3, 40>> }    \* width 3

\* Raw block texts.
RawTexts ==
    { <<"a">>,                      \* one line
      <<" ", "\n">>,                \* whitespace only
      <<"a", "\n", " ", "b">> }     \* two lines: an embedded line break

BlockDomain ==
    { [x0 |-> bx[1], y0 |-> bx[2], x1 |-> bx[3], y1 |-> bx[4], text |-> t] :
        bx \in Boxes, t \in RawTexts }

BlockLists(n) == UNION { [1..m -> BlockDomain] : m \in 0..n }

(***************************************************************************)
(* Python string functions.                                                *)
(***************************************************************************)
IsSpace(c) == c \in {" ", "\n"}

RECURSIVE LStrip(_)
LStrip(s) ==
    IF s = <<>> THEN <<>>
    ELSE IF IsSpace(Head(s)) THEN LStrip(Tail(s)) ELSE s

RECURSIVE RStrip(_)
RStrip(s) ==
    IF s = <<>> THEN <<>>
    ELSE IF IsSpace(s[Len(s)]) THEN RStrip(SubSeq(s, 1, Len(s) - 1)) ELSE s

\* str.strip()
Strip(s) == RStrip(LStrip(s))

RECURSIVE SplitAcc(_, _, _)
SplitAcc(s, word, acc) ==
    IF s = <<>>
    THEN IF word = <<>> THEN acc ELSE Append(acc, word)
    ELSE IF IsSpace(Head(s))
         THEN SplitAcc(Tail(s), <<>>, IF word = <<>> THEN acc ELSE Append(acc, word))
         ELSE SplitAcc(Tail(s), Append(word, Head(s)), acc)

\* str.split() with no separator: the maximal runs of non-whitespace
Split(s) == SplitAcc(s, <<>>, <<>>)

RECURSIVE Join(_, _)
\* sep.join(words)
Join(sep, words) ==
    IF words = <<>> THEN <<>>
    ELSE IF Len(words) = 1 THEN words[1]
    ELSE words[1] \o sep \o Join(sep, Tail(words))

RECURSIVE Count(_, _)
\* str.count(c) for a one-character c
Count(s, c) ==
    IF s = <<>> THEN 0
    ELSE (IF Head(s) = c THEN 1 ELSE 0) + Count(Tail(s), c)

\* ' '.join(text_content.strip().split()), computed once for every raw text
CleanTextOf == [ t \in RawTexts |-> Join(<<" ">>, Split(Strip(t))) ]

CleanText(text_content) == CleanTextOf[text_content]

(***************************************************************************)
(* blocks.sort(key=lambda b: (b[1], b[0])): a stable sort.                 *)
(***************************************************************************)
KeyLE(a, b) == a.y0 < b.y0 \/ (a.y0 = b.y0 /\ a.x0 <= b.x0)

RECURSIVE InsertSorted(_, _)
\* b goes after every element whose key is <= b's key (stability)
InsertSorted(b, sorted) ==
    IF sorted = <<>> THEN <<b>>
    ELSE IF KeyLE(Head(sorted), b)
         THEN <<Head(sorted)>> \o InsertSorted(b, Tail(sorted))
         ELSE <<b>> \o sorted

RECURSIVE SortBlocks(_)
SortBlocks(bl) ==
    IF bl = <<>> THEN <<>>
    ELSE InsertSorted(bl[Len(bl)], SortBlocks(SubSeq(bl, 1, Len(bl) - 1)))

(***************************************************************************)
(* One iteration of the while loop of extract_paragraphs_from_pdf.         *)
(***************************************************************************)
Abs(x) == IF x < 0 THEN -x ELSE x
Min(a, b) == IF a <= b THEN a ELSE b
Max(a, b) == IF a >= b THEN a ELSE b

\* is_single_line = cleaned_text.count('\n') == 0
IsSingleLine(cleaned_text) == Count(cleaned_text, "\n") = 0

\* faulty variant: a block exactly at the threshold counts as narrow
BelowWidthThresholdInclusive(block_width, page_content_width) ==
    block_width * 100 <= page_content_width * WidthRatioPct

\* block_width < width_threshold, with width_threshold = page_content_width * 0.70.
\* For integer widths the float comparison and this integer one agree: the
\* double nearest 0.70 is below 0.70 and rounding is monotonic, so the product
\* never crosses an integer.
BelowWidthThreshold(block_width, page_content_width) ==
    block_width * 100 < page_content_width * WidthRatioPct

\* the outer condition of the merge (1-based i: (i + 1) < len(blocks) is i < Len)
MergeCandidate(cur, page_content_width, hasNext) ==
    /\ IsSingleLine(CleanText(cur.text))
    /\ BelowWidthThreshold(cur.x1 - cur.x0, page_content_width)
    /\ hasNext

\* abs(ny0 - y0) < vertical_threshold or (ny0 > y1 and ny0 - y1 < vertical_threshold)
VerticallyClose(y0, y1, ny0) ==
    \/ Abs(ny0 - y0) < vertical_threshold
    \/ (ny0 > y1 /\ ny0 - y1 < vertical_threshold)

\* faulty variant: the texts are concatenated without the separator
MergedTextNoSpace(cleaned_text, cleaned_ntext) == cleaned_text \o cleaned_ntext

\* cleaned_text += " " + cleaned_ntext
MergedText(cleaned_text, cleaned_ntext) == cleaned_text \o <<" ">> \o cleaned_ntext

\* faulty variant: the left edge of the current block is kept
UnionBoxKeepsLeft(cur, nxt) ==
    << cur.x0, Min(cur.y0, nxt.y0), Max(cur.x1, nxt.x1), Max(cur.y1, nxt.y1) >>

\* the bounding box that encompasses both merged blocks
UnionBox(cur, nxt) ==
    << Min(cur.x0, nxt.x0), Min(cur.y0, nxt.y0),
       Max(cur.x1, nxt.x1), Max(cur.y1, nxt.y1) >>

BoxOf(b) == << b.x0, b.y0, b.x1, b.y1 >>

\* faulty variant: the absorbed block is not skipped
NextIndexNoSkip(idx, merged) == idx + 1

\* faulty variant: the index is advanced only inside the merge
NextIndexStuck(idx, merged) == IF merged THEN idx + 1 ELSE idx

\* i += 1 when merged, then i += 1
NextIndex(idx, merged) == IF merged THEN idx + 2 ELSE idx + 1

\* if cleaned_text:  (a non-empty string is truthy)
HasText(cleaned_text) == cleaned_text # <<>>

\* The whole iteration for the block at index idx: what it decides and emits.
StepResult(bl, idx, page_content_width) ==
    LET cur    == bl[idx]
        merged == /\ MergeCandidate(cur, page_content_width, idx < Len(bl))
                  /\ VerticallyClose(cur.y0, cur.y1, bl[idx + 1].y0)
        text   == IF merged
                  THEN MergedText(CleanText(cur.text), CleanText(bl[idx + 1].text))
                  ELSE CleanText(cur.text)
        pos    == IF merged THEN UnionBox(cur, bl[idx + 1]) ELSE BoxOf(cur)
    IN  [ merged |-> merged, text |-> text, position |-> pos,
          emitted |-> HasText(text), next_i |-> NextIndex(idx, merged) ]

(***************************************************************************)
(* The translation placeholder.                                            *)
(***************************************************************************)
\* original_text + "_[zh-CN translated]"
Translate(original_text) == original_text \o << "_[zh-CN translated]" >>

RECURSIVE ProcessParagraphs(_)
ProcessParagraphs(pd) ==
    IF pd = <<>> THEN <<>>
    ELSE << [ original_text   |-> pd[1].original_text,
              translated_text |-> Translate(pd[1].original_text),
              position        |-> pd[1].position,
              page_num        |-> pd[1].page_num ] >>
         \o ProcessParagraphs(Tail(pd))

(***************************************************************************)
(* State.                                                                  *)
(***************************************************************************)
VARIABLES
    pc,                   \* position in the __main__ pipeline
    doc,                  \* handle opened by extraction: "none", "open", "closed"
    numPages,             \* len(doc)
    page_num,             \* loop variable of the page loop
    page_content_width,   \* page.rect.width of the loaded page
    blocks,               \* the sorted blocks of the loaded page
    i,                    \* walk index (1-based)
    paragraphs_data,      \* paragraphs emitted so far
    processed_paragraphs, \* return value of extract_paragraphs_from_pdf
    doc_for_annotation,   \* handle reopened by __main__: "none", "open", "closed"
    annotations,          \* annotations added to doc_for_annotation in memory
    k,                    \* index of the annotation loop (1-based)
    saved,                \* the output file has been written
    console,              \* kinds of message printed so far
    steps,                \* history: the walk steps taken on the loaded page
    blocksRead,           \* history: number of blocks reported so far
    attempts,             \* history: paragraph indices the annotator tried
    failures,             \* history: paragraph indices whose annotation raised
    saveAttempted         \* history: doc_for_annotation.save was called

vars == << pc, doc, numPages, page_num, page_content_width, blocks, i,
           paragraphs_data, processed_paragraphs, doc_for_annotation,
           annotations, k, saved, console, steps, blocksRead, attempts,
           failures, saveAttempted >>

extractVars == << numPages, page_num, page_content_width, blocks, i,
                  paragraphs_data, steps, blocksRead >>
annotVars == << doc_for_annotation, annotations, k, saved, attempts,
                failures, saveAttempted >>

Init ==
    /\ pc = "extract"
    /\ doc = "none"
    /\ numPages = 0
    /\ page_num = 0
    /\ page_content_width = 0
    /\ blocks = <<>>
    /\ i = 1
    /\ paragraphs_data = <<>>
    /\ processed_paragraphs = <<>>
    /\ doc_for_annotation = "none"
    /\ annotations = <<>>
    /\ k = 1
    /\ saved = FALSE
    /\ console = {}
    /\ steps = <<>>
    /\ blocksRead = 0
    /\ attempts = <<>>
    /\ failures = {}
    /\ saveAttempted = FALSE

(***************************************************************************)
(* extract_paragraphs_from_pdf                                             *)
(***************************************************************************)
\* os.path.exists(pdf_path) is false: print, return []
FileNotFound ==
    /\ pc = "extract"
    /\ console' = console \cup {"not_found"}
    /\ processed_paragraphs' = <<>>
    /\ pc' = "main"
    /\ UNCHANGED << doc, extractVars, annotVars >>

\* fitz.open raises: print, return []
OpenFails ==
    /\ pc = "extract"
    /\ console' = console \cup {"open_error"}
    /\ processed_paragraphs' = <<>>
    /\ pc' = "main"
    /\ UNCHANGED << doc, extractVars, annotVars >>

\* doc = fitz.open(pdf_path)
OpenDocument ==
    /\ pc = "extract"
    /\ \E n \in 0..MaxPages : numPages' = n
    /\ doc' = "open"
    /\ page_num' = 0
    /\ pc' = "for_page"
    /\ UNCHANGED << page_content_width, blocks, i, paragraphs_data, steps,
                    blocksRead, processed_paragraphs, console, annotVars >>

\* page = doc.load_page(page_num); blocks = page.get_text("blocks"); blocks.sort(...); i = 0
LoadPage ==
    /\ pc = "for_page"
    /\ page_num < numPages
    /\ \E w \in PageWidths : page_content_width' = w
    /\ \E bl \in BlockLists(MaxBlocks - blocksRead) :
          /\ blocks' = SortBlocks(bl)
          /\ blocksRead' = blocksRead + Len(bl)
    /\ i' = 1
    /\ steps' = <<>>
    /\ pc' = "while"
    /\ UNCHANGED << doc, numPages, page_num, paragraphs_data,
                    processed_paragraphs, console, annotVars >>

\* one iteration of: while i < len(blocks)
WalkStep ==
    /\ pc = "while"
    /\ i <= Len(blocks)
    /\ LET r == StepResult(blocks, i, page_content_width) IN
          /\ paragraphs_data' =
                IF r.emitted
                THEN Append(paragraphs_data,
                            [ original_text |-> r.text,
                              position      |-> r.position,
                              page_num      |-> page_num ])
                ELSE paragraphs_data
          /\ i' = r.next_i
          /\ steps' = Append(steps, [ start |-> i, merged |-> r.merged,
                                      emitted |-> r.emitted ])
    /\ UNCHANGED << pc, doc, numPages, page_num, page_content_width, blocks,
                    blocksRead, processed_paragraphs, console, annotVars >>

\* the while loop ends: next page_num of the for loop
WalkExit ==
    /\ pc = "while"
    /\ i > Len(blocks)
    /\ page_num' = page_num + 1
    /\ pc' = "for_page"
    /\ UNCHANGED << doc, numPages, page_content_width, blocks, i,
                    paragraphs_data, steps, blocksRead, processed_paragraphs,
                    console, annotVars >>

\* the for loop ends: the translation placeholder, return processed_paragraphs.
\* The function's locals (page, blocks, i, paragraphs_data) end with the call;
\* there is no doc.close() on this path.
TranslateAndReturn ==
    /\ pc = "for_page"
    /\ page_num >= numPages
    /\ processed_paragraphs' = ProcessParagraphs(paragraphs_data)
    /\ numPages' = 0
    /\ page_num' = 0
    /\ page_content_width' = 0
    /\ blocks' = <<>>
    /\ i' = 1
    /\ paragraphs_data' = <<>>
    /\ steps' = <<>>
    /\ pc' = "main"
    /\ UNCHANGED << doc, blocksRead, console, annotVars >>

(***************************************************************************)
(* add_annotations_to_pdf_in_memory and the __main__ pipeline              *)
(***************************************************************************)
\* if processed_paragraphs_data: is false, nothing more is done
MainSkip ==
    /\ pc = "main"
    /\ processed_paragraphs = <<>>
    /\ pc' = "done"
    /\ UNCHANGED << doc, extractVars, processed_paragraphs, console, annotVars >>

\* doc_for_annotation = fitz.open(pdf_file)
Reopen ==
    /\ pc = "main"
    /\ processed_paragraphs # <<>>
    /\ doc_for_annotation' = "open"
    /\ k' = 1
    /\ pc' = "annotate"
    /\ UNCHANGED << doc, extractVars, processed_paragraphs, console,
                    annotations, saved, attempts, failures, saveAttempted >>

\* faulty variant: the except clause swallows the error
PipelineErrorSwallowed(out) == out

\* what the except clause of __main__ prints
PipelineErrorReport(out) == out \cup {"pipeline_error"}

\* fitz.open raises inside the try of __main__
ReopenFails ==
    /\ pc = "main"
    /\ processed_paragraphs # <<>>
    /\ console' = PipelineErrorReport(console)
    /\ pc' = "done"
    /\ UNCHANGED << doc, extractVars, processed_paragraphs, annotVars >>

\* page.add_text_annot(fitz.Point(position[0], position[1]), translated_text)
AnnotationOf(p) ==
    [ page_num |-> p.page_num,
      point    |-> << p.position[1], p.position[2] >>,
      text     |-> p.translated_text ]

\* faulty variant: an annotation error ends the annotation loop
AfterAnnotationErrorAbort(idx, n) == n + 1

\* the loop index after the except clause of the annotation loop: the loop goes on
AfterAnnotationError(idx, n) == idx + 1

\* one iteration of the annotation loop, load_page and add_text_annot succeed
AnnotateOk ==
    /\ pc = "annotate"
    /\ k <= Len(processed_paragraphs)
    /\ annotations' = Append(annotations, AnnotationOf(processed_paragraphs[k]))
    /\ attempts' = Append(attempts, k)
    /\ k' = k + 1
    /\ UNCHANGED << pc, doc, extractVars, processed_paragraphs, console,
                    doc_for_annotation, saved, failures, saveAttempted >>

\* one iteration of the annotation loop, load_page or add_text_annot raises
AnnotateFails ==
    /\ pc = "annotate"
    /\ k <= Len(processed_paragraphs)
    /\ console' = console \cup {"annot_error"}
    /\ attempts' = Append(attempts, k)
    /\ failures' = failures \cup {k}
    /\ k' = AfterAnnotationError(k, Len(processed_paragraphs))
    /\ UNCHANGED << pc, doc, extractVars, processed_paragraphs,
                    doc_for_annotation, annotations, saved, saveAttempted >>

\* doc_for_annotation.save(...) succeeds; print; doc_for_annotation.close()
SaveOk ==
    /\ pc = "annotate"
    /\ k > Len(processed_paragraphs)
    /\ saveAttempted' = TRUE
    /\ saved' = TRUE
    /\ console' = console \cup {"saved"}
    /\ doc_for_annotation' = "closed"
    /\ pc' = "done"
    /\ UNCHANGED << doc, extractVars, processed_paragraphs, annotations, k,
                    attempts, failures >>

\* doc_for_annotation.save(...) raises: the except clause prints, nothing else runs
SaveFails ==
    /\ pc = "annotate"
    /\ k > Len(processed_paragraphs)
    /\ saveAttempted' = TRUE
    /\ console' = PipelineErrorReport(console)
    /\ pc' = "done"
    /\ UNCHANGED << doc, extractVars, processed_paragraphs, doc_for_annotation,
                    annotations, k, saved, attempts, failures >>

Next ==
    \/ FileNotFound
    \/ OpenFails
    \/ OpenDocument
    \/ LoadPage
    \/ WalkStep
    \/ WalkExit
    \/ TranslateAndReturn
    \/ MainSkip
    \/ Reopen
    \/ ReopenFails
    \/ AnnotateOk
    \/ AnnotateFails
    \/ SaveOk
    \/ SaveFails

Spec == Init /\ [][Next]_vars

(***************************************************************************)
(* The walk of one page on its own.  WalkInit is the pipeline just after   *)
(* LoadPage on page p: the pages before p - 1 reported no block, page      *)
(* p - 1 reported at most one (prior), whose walk has emitted it or        *)
(* dropped it.                                                             *)
(***************************************************************************)
PriorParagraphs(prior, p) ==
    IF prior # <<>> /\ HasText(CleanText(prior[1].text))
    THEN << [ original_text |-> CleanText(prior[1].text),
              position      |-> BoxOf(prior[1]),
              page_num      |-> p - 1 ] >>
    ELSE <<>>

WalkInit ==
    \E p \in 0..(MaxPages - 1) :
    \E w \in PageWidths :
    \E prior \in (IF p = 0 THEN {<<>>} ELSE BlockLists(1)) :
    \E bl \in BlockLists(MaxBlocks - Len(prior)) :
        /\ pc = "while"
        /\ doc = "open"
        /\ numPages = MaxPages
        /\ page_num = p
        /\ page_content_width = w
        /\ blocks = SortBlocks(bl)
        /\ i = 1
        /\ paragraphs_data = PriorParagraphs(prior, p)
        /\ processed_paragraphs = <<>>
        /\ doc_for_annotation = "none"
        /\ annotations = <<>>
        /\ k = 1
        /\ saved = FALSE
        /\ console = {}
        /\ steps = <<>>
        /\ blocksRead = Len(prior) + Len(bl)
        /\ attempts = <<>>
        /\ failures = {}
        /\ saveAttempted = FALSE

WalkNext == WalkStep \/ WalkExit

\* The walk is sequential code: an iteration that can run does run, and the
\* loop is left when its condition fails.
WalkSpec == WalkInit /\ [][WalkNext]_vars /\ WF_vars(WalkStep) /\ WF_vars(WalkExit)

(***************************************************************************)
(* Reading the walk history of the loaded page.                            *)
(***************************************************************************)
Walking == pc \in {"while", "for_page"}

RECURSIVE EmittedCount(_)
\* number of paragraphs the first n walk steps of the loaded page emitted
EmittedCount(n) ==
    IF n = 0 THEN 0
    ELSE EmittedCount(n - 1) + (IF steps[n].emitted THEN 1 ELSE 0)

\* the paragraph that walk step n of the loaded page emitted
ParagraphOfStep(n) ==
    paragraphs_data[Len(paragraphs_data) - EmittedCount(Len(steps)) + EmittedCount(n)]

\* number of line breaks inside the text, leading and trailing whitespace aside
EmbeddedLineBreaks(text) == Count(Strip(text), "\n")

CurOf(n) == blocks[steps[n].start]
NextOf(n) == blocks[steps[n].start + 1]
HasNextBlock(n) == steps[n].start < Len(blocks)

\* |next.y0 - cur.y0| < 15 or (next.y0 > cur.y1 and next.y0 - cur.y1 < 15)
Within15(cur, nxt) ==
    \/ (nxt.y0 - cur.y0 < 15 /\ cur.y0 - nxt.y0 < 15)
    \/ (nxt.y0 > cur.y1 /\ nxt.y0 - cur.y1 < 15)

\* x1 - x0 < 0.70 * page width
Narrow(b) == (b.x1 - b.x0) * 10 < 7 * page_content_width

(***************************************************************************)
(* C1: a walk step that starts at a single-line block narrower than 70% of *)
(* the page width, whose next block in sorted order is within 15 points,   *)
(* emits one paragraph whose text is the normalized text of the block, one *)
(* space, the normalized text of the next block; the next block starts no  *)
(* step of its own.                                                        *)
(***************************************************************************)
C1_MergeJoinsWithOneSpace ==
    \A n \in 1..Len(steps) :
        ( /\ EmbeddedLineBreaks(CurOf(n).text) = 0
          /\ Narrow(CurOf(n))
          /\ HasNextBlock(n)
          /\ Within15(CurOf(n), NextOf(n)) )
        => /\ steps[n].emitted
           /\ ParagraphOfStep(n).original_text
                = CleanText(CurOf(n).text) \o <<" ">> \o CleanText(NextOf(n).text)
           /\ \A m \in 1..Len(steps) : steps[m].start # steps[n].start + 1

C1_Witness ==
    \E n \in 1..Len(steps) :
        /\ EmbeddedLineBreaks(CurOf(n).text) = 0
        /\ Narrow(CurOf(n))
        /\ HasNextBlock(n)
        /\ Within15(CurOf(n), NextOf(n))
        /\ CleanText(CurOf(n).text) # <<>>
        /\ CleanText(NextOf(n).text) # <<>>
        /\ ParagraphOfStep(n).original_text
             = CleanText(CurOf(n).text) \o <<" ">> \o CleanText(NextOf(n).text)

(***************************************************************************)
(* C2: a walk step that starts at a block whose raw text has an embedded   *)
(* line break never absorbs the next block.                                *)
(***************************************************************************)
C2_MultiLineNeverMergeSource ==
    \A n \in 1..Len(steps) :
        EmbeddedLineBreaks(CurOf(n).text) > 0 => ~steps[n].merged

(***************************************************************************)
(* C3: every emitted paragraph has a non-empty text, and no block whose    *)
(* normalized text is empty takes part in an emitted paragraph, alone or   *)
(* in a merge.                                                             *)
(***************************************************************************)
C3_EmptyBlocksDropped ==
    /\ \A j \in 1..Len(paragraphs_data) : paragraphs_data[j].original_text # <<>>
    /\ \A n \in 1..Len(steps) :
          steps[n].emitted =>
             /\ CleanText(CurOf(n).text) # <<>>
             /\ (steps[n].merged => CleanText(NextOf(n).text) # <<>>)

(***************************************************************************)
(* C4: no document handle is left open: the extraction handle is closed    *)
(* once extract_paragraphs_from_pdf has returned, and the annotation       *)
(* handle is closed when the pipeline has ended.                           *)
(***************************************************************************)
C4_HandlesClosed ==
    /\ (pc \in {"main", "annotate", "done"} => doc # "open")
    /\ (pc = "done" => doc_for_annotation # "open")

(***************************************************************************)
(* C5: the annotator tries every paragraph in input order whether or not   *)
(* an earlier annotation raised, and the save is then attempted.           *)
(***************************************************************************)
C5_AnnotationFailureDoesNotAbort ==
    /\ failures \subseteq { attempts[j] : j \in 1..Len(attempts) }
    /\ (pc = "annotate" => attempts = [ j \in 1..(k - 1) |-> j ])
    /\ (pc = "done" /\ doc_for_annotation # "none" =>
           /\ attempts = [ j \in 1..Len(processed_paragraphs) |-> j ]
           /\ saveAttempted)

C5_Witness ==
    /\ pc = "done"
    /\ saveAttempted
    /\ \E f \in failures :
          /\ f < Len(processed_paragraphs)
          /\ (f + 1) \notin failures
          /\ \E j \in 1..Len(attempts) : attempts[j] = f + 1

(***************************************************************************)
(* C6: a run whose save fails ends reporting the error and not the         *)
(* success, a run whose save succeeds ends reporting the success and not   *)
(* the error; nothing runs after the failed save.                          *)
(***************************************************************************)
C6_SaveFailureReported ==
    /\ (saveAttempted /\ ~saved =>
           /\ pc = "done"
           /\ "pipeline_error" \in console
           /\ "saved" \notin console)
    /\ (saved => "saved" \in console /\ "pipeline_error" \notin console)

C6_Witness ==
    /\ pc = "done"
    /\ saveAttempted
    /\ ~saved
    /\ "pipeline_error" \in console

(***************************************************************************)
(* C7: the position of a paragraph emitted by a merging step is the        *)
(* coordinate-wise union of the two boxes, that of a non-merging step is   *)
(* the block's own box; every emitted position has x0 <= x1 and y0 <= y1.  *)
(***************************************************************************)
C7_MergedBoxIsUnion ==
    \A n \in 1..Len(steps) :
        steps[n].emitted =>
            LET pos == ParagraphOfStep(n).position
                a   == CurOf(n)
            IN  /\ pos[1] <= pos[3] /\ pos[2] <= pos[4]
                /\ IF steps[n].merged
                   THEN LET b == NextOf(n) IN
                        /\ pos[1] \in {a.x0, b.x0} /\ pos[1] <= a.x0 /\ pos[1] <= b.x0
                        /\ pos[2] \in {a.y0, b.y0} /\ pos[2] <= a.y0 /\ pos[2] <= b.y0
                        /\ pos[3] \in {a.x1, b.x1} /\ pos[3] >= a.x1 /\ pos[3] >= b.x1
                        /\ pos[4] \in {a.y1, b.y1} /\ pos[4] >= a.y1 /\ pos[4] >= b.y1
                   ELSE pos = << a.x0, a.y0, a.x1, a.y1 >>

C7_Witness ==
    \E n \in 1..Len(steps) :
        /\ steps[n].emitted
        /\ steps[n].merged
        /\ ParagraphOfStep(n).position # BoxOf(CurOf(n))
        /\ ParagraphOfStep(n).position # BoxOf(NextOf(n))
        /\ ParagraphOfStep(n).position[1] = NextOf(n).x0
        /\ NextOf(n).x0 < CurOf(n).x0

(***************************************************************************)
(* C8: a walk step that starts at a block at least 70% of the page width   *)
(* wide never absorbs the next block: the next block starts its own step.  *)
(***************************************************************************)
C8_WideNeverMergeSource ==
    \A n \in 1..Len(steps) :
        ~Narrow(CurOf(n)) =>
            /\ ~steps[n].merged
            /\ (n < Len(steps) => steps[n + 1].start = steps[n].start + 1)
            /\ (n = Len(steps) => i = steps[n].start + 1)
            /\ (steps[n].emitted =>
                   ParagraphOfStep(n).original_text = CleanText(CurOf(n).text))

C8_Witness ==
    \E n \in 1..Len(steps) :
        /\ ~Narrow(CurOf(n))
        /\ (CurOf(n).x1 - CurOf(n).x0) * 10 = 7 * page_content_width
        /\ EmbeddedLineBreaks(CurOf(n).text) = 0
        /\ HasNextBlock(n)
        /\ Within15(CurOf(n), NextOf(n))
        /\ n < Len(steps)
        /\ steps[n + 1].start = steps[n].start + 1

(***************************************************************************)
(* C9: the number of paragraphs emitted for a page never exceeds the       *)
(* number of blocks of that page, and the walk over a page's blocks ends.  *)
(***************************************************************************)
PageCount(p) ==
    Cardinality({ j \in 1..Len(paragraphs_data) : paragraphs_data[j].page_num = p })

C9_CountBoundedAndWalkEnds ==
    /\ [](pc = "while" => PageCount(page_num) <= Len(blocks))
    /\ [](pc = "for_page" /\ page_num > 0 => PageCount(page_num - 1) <= Len(blocks))
    /\ ((pc = "while") ~> (pc = "for_page"))

C9_Witness ==
    /\ pc = "for_page"
    /\ page_num > 0
    /\ Len(blocks) = MaxBlocks
    /\ PageCount(page_num - 1) > 0
    /\ PageCount(page_num - 1) < Len(blocks)

(***************************************************************************)
(* C10: the walk steps of a page consume the sorted blocks left to right,  *)
(* each step exactly one block or, when it merges, exactly two adjacent    *)
(* blocks; the step after a merge starts at the block after the absorbed   *)
(* one, and the paragraph of a merge holds the text of its two blocks only.*)
(***************************************************************************)
C10_SinglePassNonTransitive ==
    Walking =>
        /\ (steps # <<>> => steps[1].start = 1)
        /\ \A n \in 1..Len(steps) :
              LET used == IF steps[n].merged THEN 2 ELSE 1 IN
              /\ steps[n].start + used - 1 <= Len(blocks)
              /\ (n < Len(steps) => steps[n + 1].start = steps[n].start + used)
              /\ (n = Len(steps) /\ pc = "while" => i = steps[n].start + used)
              /\ (steps[n].emitted =>
                    ParagraphOfStep(n).original_text =
                       IF steps[n].merged
                       THEN CleanText(CurOf(n).text) \o <<" ">> \o CleanText(NextOf(n).text)
                       ELSE CleanText(CurOf(n).text))

\* a merge whose absorbed block is itself narrow and within 15 points of the
\* block after it, which nevertheless starts a step of its own
C10_Witness ==
    \E n \in 1..Len(steps) :
        /\ steps[n].merged
        /\ n < Len(steps)
        /\ steps[n + 1].start = steps[n].start + 2
        /\ Narrow(NextOf(n))
        /\ Within15(NextOf(n), blocks[steps[n].start + 2])
        /\ steps[n + 1].emitted
        /\ ParagraphOfStep(n + 1).original_text
             = CleanText(blocks[steps[n].start + 2].text)

====
